---- MODULE Spec2Model ----
(***************************************************************************)
(* The extract pipe of lib/logstorage as found in common.go: the pattern   *)
(* parser (parseExtractFormatSteps), the matcher (extractFormat.apply,     *)
(* tryUnquoteString), needed-field propagation (updateNeededFields) and    *)
(* the sharded processor (newPipeProcessor, writeBlock).                   *)
(*                                                                         *)
(* A Go string is modelled as a sequence of one-character strings, so      *)
(* that slicing, strings.Index and quoting are computed, not assumed.      *)
(***************************************************************************)
EXTENDS Integers, Sequences, FiniteSets, TLC

VARIABLES
    stepsStr,        \* pipeExtract.stepsStr: the pattern text
    field,           \* pipeExtract.field: the source field name
    steps,           \* pipeExtract.steps: result of parseExtractFormatSteps
    perr,            \* error returned by parseExtractFormatSteps ("" is nil)
    pc,              \* position of the (single-threaded) caller
    ef,              \* the extractFormat of the single matcher: steps, matches, fields
    ap,              \* where and how the last apply call returned
    neededFields,    \* fieldsSet neededFields
    unneededFields,  \* fieldsSet unneededFields
    shards,          \* pipeExtractProcessor.shards: shard index -> extractFormat
    wk,              \* per worker: position inside writeBlock / apply and its locals
    forwarded        \* blocks handed to ppBase.writeBlock, in order

vars == <<stepsStr, field, steps, perr, pc, ef, ap, neededFields, unneededFields,
          shards, wk, forwarded>>

-----------------------------------------------------------------------------
(* Characters with a special role.                                         *)

DQ == "\""
\* the backtick, byte 0x60 (the character itself cannot be written in a string here)
BQ == "BQ"
BSL == "\\"
LT == "<"
GT == ">"
AMP == "&"
SEMI == ";"
\* the bytes 0x07 to 0x0d, which the escapes \a \b \t \n \v \f \r stand for
BEL == "BEL"
BSP == "BSP"
HT == "HT"
NL == "NL"
VT == "VT"
FF == "FF"
CR == "CR"

NoString == <<>>

-----------------------------------------------------------------------------
(* Go string primitives used by the code.                                  *)

\* s[n:]
From(s, n) == SubSeq(s, n + 1, Len(s))

\* s[:n]
Upto(s, n) == SubSeq(s, 1, n)

\* strings.HasPrefix(s, prefix)
HasPrefix(s, prefix) ==
    /\ Len(prefix) <= Len(s)
    /\ Upto(s, Len(prefix)) = prefix

\* strings.Index(s, substr): offset of the first occurrence, -1 when absent
Index(s, substr) ==
    LET hits == {n \in 0..(Len(s) - Len(substr)) : HasPrefix(From(s, n), substr)}
    IN IF hits = {} THEN -1
       ELSE CHOOSE n \in hits : \A m \in hits : n <= m

\* strings.IndexByte(s, c)
IndexByte(s, c) == Index(s, <<c>>)

-----------------------------------------------------------------------------
(* strconv.QuotedPrefix and strconv.Unquote, for the two quote forms       *)
(* tryUnquoteString lets through (double quote and backtick).              *)

\* value of the single-character escape \c inside a double-quoted literal;
\* NoString when \c is no such escape there. The numeric escapes (octal, \x,
\* \u, \U) need digits after the backslash and are left out.
EscapeValue(c) ==
    CASE c = "a" -> <<BEL>>
      [] c = "b" -> <<BSP>>
      [] c = "f" -> <<FF>>
      [] c = "n" -> <<NL>>
      [] c = "r" -> <<CR>>
      [] c = "t" -> <<HT>>
      [] c = "v" -> <<VT>>
      [] c = BSL -> <<BSL>>
      [] c = DQ -> <<DQ>>
      [] OTHER -> NoString

\* scan of a double-quoted literal from position i (1-based, after the opening
\* quote): [ok, end, val] with end the length of the literal, quotes included
RECURSIVE ScanDoubleQuoted(_, _, _)
ScanDoubleQuoted(s, i, val) ==
    IF i > Len(s) THEN [ok |-> FALSE, end |-> 0, val |-> NoString]
    ELSE IF s[i] = DQ THEN [ok |-> TRUE, end |-> i, val |-> val]
    ELSE IF s[i] = NL THEN [ok |-> FALSE, end |-> 0, val |-> NoString]
    ELSE IF s[i] = BSL
         THEN IF i + 1 > Len(s) \/ EscapeValue(s[i + 1]) = NoString
              THEN [ok |-> FALSE, end |-> 0, val |-> NoString]
              ELSE ScanDoubleQuoted(s, i + 2, val \o EscapeValue(s[i + 1]))
    ELSE ScanDoubleQuoted(s, i + 1, Append(val, s[i]))

\* a raw literal ends at the next backtick; carriage returns are dropped
ScanRaw(s) ==
    LET n == IndexByte(From(s, 1), BQ)
    IN IF n < 0 THEN [ok |-> FALSE, end |-> 0, val |-> NoString]
       ELSE [ok |-> TRUE, end |-> n + 2,
             val |-> SelectSeq(SubSeq(s, 2, n + 1), LAMBDA c : c # CR)]

\* strconv.QuotedPrefix(s) followed by strconv.Unquote of that prefix
UnquotePrefix(s) ==
    IF Len(s) < 2 THEN [ok |-> FALSE, end |-> 0, val |-> NoString]
    ELSE IF s[1] = BQ THEN ScanRaw(s)
    ELSE IF s[1] = DQ THEN ScanDoubleQuoted(s, 2, NoString)
    ELSE [ok |-> FALSE, end |-> 0, val |-> NoString]

\* tryUnquoteString(s) = (us, nOffset, ok)
tryUnquoteString(s) ==
    IF Len(s) = 0 THEN [us |-> s, nOffset |-> 0, ok |-> FALSE]
    ELSE IF s[1] # DQ /\ s[1] # BQ THEN [us |-> s, nOffset |-> 0, ok |-> FALSE]
    ELSE LET q == UnquotePrefix(s)
         IN IF ~q.ok THEN [us |-> s, nOffset |-> 0, ok |-> FALSE]
            ELSE [us |-> q.val, nOffset |-> q.end, ok |-> TRUE]

-----------------------------------------------------------------------------
(* html.UnescapeString, for the named entities lt, gt and amp; numeric      *)
(* references (&#...) are left out.                                        *)

IsAlnum(c) ==
    c \in {"a", "b", "c", "d", "e", "f", "g", "h", "i", "j", "k", "l", "m",
           "n", "o", "p", "q", "r", "s", "t", "u", "v", "w", "x", "y", "z",
           "0", "1", "2", "3", "4", "5", "6", "7", "8", "9"}

\* the entity table, restricted to the names the modelled characters spell
EntityValue(name) ==
    CASE name = <<"l", "t", SEMI>> -> <<LT>>
      [] name = <<"l", "t">> -> <<LT>>
      [] name = <<"g", "t", SEMI>> -> <<GT>>
      [] name = <<"g", "t">> -> <<GT>>
      [] name = <<"a", "m", "p", SEMI>> -> <<AMP>>
      [] name = <<"a", "m", "p">> -> <<AMP>>
      [] OTHER -> NoString

\* number of leading alphanumeric characters of s
RECURSIVE AlnumRun(_)
AlnumRun(s) ==
    IF Len(s) > 0 /\ IsAlnum(s[1]) THEN 1 + AlnumRun(Tail(s)) ELSE 0

\* longest proper prefix of name (at least 2 characters) that is an entity
\* written without its semicolon; 0 when there is none
EntityPrefixLen(name) ==
    LET hits == {j \in 2..(Len(name) - 1) : EntityValue(Upto(name, j)) # NoString}
    IN IF hits = {} THEN 0 ELSE CHOOSE j \in hits : \A k \in hits : k <= j

\* unescapeEntity at an ampersand: [out, used] is the replacement text and
\* the number of characters of s it stands for (s[1] = "&")
unescapeEntity(s) ==
    IF Len(s) <= 1 THEN [out |-> <<AMP>>, used |-> 1]
    ELSE LET run == AlnumRun(Tail(s))
             i == IF run + 2 <= Len(s) /\ s[run + 2] = SEMI THEN run + 2 ELSE run + 1
             entityName == SubSeq(s, 2, i)
         IN IF Len(entityName) # 0 /\ EntityValue(entityName) # NoString
            THEN [out |-> EntityValue(entityName), used |-> i]
            ELSE IF Len(entityName) # 0 /\ EntityPrefixLen(entityName) > 0
            THEN LET j == EntityPrefixLen(entityName)
                 IN [out |-> EntityValue(Upto(entityName, j)), used |-> j + 1]
            ELSE [out |-> Upto(s, i), used |-> i]

RECURSIVE UnescapeString(_)
UnescapeString(s) ==
    LET i == IndexByte(s, AMP)
    IN IF i < 0 THEN s
       ELSE LET e == unescapeEntity(From(s, i))
            IN Upto(s, i) \o e.out \o UnescapeString(From(s, i + e.used))

-----------------------------------------------------------------------------
(* parseExtractFormatSteps.                                                *)

Step(prefix, fld) == [prefix |-> prefix, field |-> fld]

ParseError(msg) == [steps |-> <<>>, err |-> msg]

\* field == "_" || field == "*" gives the anonymous field
NormalizeField(fld) ==
    IF fld = <<"_">> \/ fld = <<"*">> THEN NoString ELSE fld

\* faulty variant: two captures may follow each other directly
MissingDelimiterIgnored(n) == FALSE

\* the check that rejects a capture directly followed by another one
MissingDelimiter(n) == n = 0

\* faulty variant: the named-field check is left out
ParseFinishUnchecked(acc, hasNamedField) ==
    [steps |-> [i \in 1..Len(acc) |->
                   Step(UnescapeString(acc[i].prefix), acc[i].field)],
     err |-> ""]

\* after the loop: the named-field check and the unescaping of the prefixes
ParseFinish(acc, hasNamedField) ==
    IF ~hasNamedField THEN ParseError("missing named fields like <name>")
    ELSE [steps |-> [i \in 1..Len(acc) |->
                        Step(UnescapeString(acc[i].prefix), acc[i].field)],
          err |-> ""]

\* one iteration of the for loop; s starts right after a "<"
RECURSIVE ParseLoop(_, _, _, _)
ParseLoop(acc, hasNamedField, prefix, s) ==
    LET n == IndexByte(s, GT)
    IN IF n < 0 THEN ParseError("missing '>'")
       ELSE LET fld == NormalizeField(Upto(s, n))
                s1 == From(s, n + 1)
                acc1 == Append(acc, Step(prefix, fld))
                named1 == hasNamedField \/ fld # NoString
                n2 == IndexByte(s1, LT)
            IN IF Len(s1) = 0 THEN ParseFinish(acc1, named1)
               ELSE IF n2 < 0
                    THEN ParseFinish(Append(acc1, Step(s1, NoString)), named1)
               ELSE IF MissingDelimiter(n2) THEN ParseError("missing delimiter")
               ELSE ParseLoop(acc1, named1, Upto(s1, n2), From(s1, n2 + 1))

parseExtractFormatSteps(s) ==
    LET n == IndexByte(s, LT)
    IN IF n < 0 THEN ParseError("missing <...> fields")
       ELSE ParseLoop(<<>>, FALSE, Upto(s, n), From(s, n + 1))

-----------------------------------------------------------------------------
(* extractFormat: newExtractFormat and apply.                              *)

NoExtractFormat == [steps |-> <<>>, matches |-> <<>>, fields |-> <<>>, panic |-> ""]

\* the fields view: one entry per named step, value being the index of the
\* matches slot the pointer refers to
RECURSIVE FieldsOf(_, _)
FieldsOf(stps, i) ==
    IF i > Len(stps) THEN <<>>
    ELSE IF stps[i].field # NoString
         THEN <<[name |-> stps[i].field, value |-> i]>> \o FieldsOf(stps, i + 1)
         ELSE FieldsOf(stps, i + 1)

newExtractFormat(stps) ==
    IF Len(stps) = 0
    THEN [NoExtractFormat EXCEPT !.panic = "BUG: steps cannot be empty"]
    ELSE IF Len(FieldsOf(stps, 1)) = 0
    THEN [NoExtractFormat EXCEPT !.panic = "BUG: fields cannot be empty"]
    ELSE [steps |-> stps,
          matches |-> [i \in 1..Len(stps) |-> NoString],
          fields |-> FieldsOf(stps, 1),
          panic |-> ""]

\* the value a reader of the fields view sees for entry k
FieldValue(e, k) == e.matches[e.fields[k].value]

\* faulty variant: the buffer is not cleared
clearNothing(matches) == matches

\* clear(ef.matches)
clear(matches) == [i \in 1..Len(matches) |-> NoString]

\* nextPrefix of step i (1-based): the prefix of the following step, or ""
NextPrefix(stps, i) ==
    IF i + 1 <= Len(stps) THEN stps[i + 1].prefix ELSE NoString

\* The locals of a running apply call: at is "first" before the search for
\* steps[0].prefix, "loop" before iteration i of the for loop, and "ret" once
\* the call has returned; how names the return taken.
ApplyStart(s) == [at |-> "first", i |-> 1, s |-> s, how |-> ""]

ApplyReturn(st, how) == [st EXCEPT !.at = "ret", !.how = how]

\* the search for the first step's prefix
applyFirst(stps, matches, st) ==
    LET prefix == stps[1].prefix
        n == Index(st.s, prefix)
    IN IF prefix # NoString /\ n < 0
       THEN [matches |-> matches, st |-> ApplyReturn(st, "mismatch_first")]
       ELSE [matches |-> matches,
             st |-> [st EXCEPT !.at = "loop",
                               !.s = IF prefix # NoString
                                     THEN From(st.s, n + Len(prefix)) ELSE st.s]]

\* after iteration i: the next iteration, or the end of the loop
applyAdvance(stps, st, s) ==
    IF st.i + 1 <= Len(stps)
    THEN [st EXCEPT !.i = st.i + 1, !.s = s]
    ELSE [st EXCEPT !.at = "ret", !.how = "end", !.s = s]

\* the branch taken when tryUnquoteString succeeded
applyQuoted(stps, matches, st, q) ==
    LET nextPrefix == NextPrefix(stps, st.i)
        m1 == [matches EXCEPT ![st.i] = q.us]
        s1 == From(st.s, q.nOffset)
    IN IF ~HasPrefix(s1, nextPrefix)
       THEN [matches |-> m1, st |-> ApplyReturn([st EXCEPT !.s = s1], "mismatch_quoted")]
       ELSE [matches |-> m1, st |-> applyAdvance(stps, st, From(s1, Len(nextPrefix)))]

\* faulty variant: the captured value runs to the end of nextPrefix
applyUnquotedKeepsPrefix(stps, matches, st) ==
    LET nextPrefix == NextPrefix(stps, st.i)
        n == Index(st.s, nextPrefix)
    IN IF nextPrefix = NoString
       THEN [matches |-> [matches EXCEPT ![st.i] = st.s], st |-> ApplyReturn(st, "rest")]
       ELSE IF n < 0
       THEN [matches |-> matches, st |-> ApplyReturn(st, "mismatch_unquoted")]
       ELSE [matches |-> [matches EXCEPT ![st.i] = Upto(st.s, n + Len(nextPrefix))],
             st |-> applyAdvance(stps, st, From(st.s, n + Len(nextPrefix)))]

\* faulty variant: on a mismatch the remaining input is stored as the value
applyUnquotedStoresOnMismatch(stps, matches, st) ==
    LET nextPrefix == NextPrefix(stps, st.i)
        n == Index(st.s, nextPrefix)
    IN IF nextPrefix = NoString
       THEN [matches |-> [matches EXCEPT ![st.i] = st.s], st |-> ApplyReturn(st, "rest")]
       ELSE IF n < 0
       THEN [matches |-> [matches EXCEPT ![st.i] = st.s],
             st |-> ApplyReturn(st, "mismatch_unquoted")]
       ELSE [matches |-> [matches EXCEPT ![st.i] = Upto(st.s, n)],
             st |-> applyAdvance(stps, st, From(st.s, n + Len(nextPrefix)))]

\* faulty variant: on a mismatch the whole buffer is reset
applyUnquotedResetsOnMismatch(stps, matches, st) ==
    LET nextPrefix == NextPrefix(stps, st.i)
        n == Index(st.s, nextPrefix)
    IN IF nextPrefix = NoString
       THEN [matches |-> [matches EXCEPT ![st.i] = st.s], st |-> ApplyReturn(st, "rest")]
       ELSE IF n < 0
       THEN [matches |-> [j \in 1..Len(matches) |-> NoString],
             st |-> ApplyReturn(st, "mismatch_unquoted")]
       ELSE [matches |-> [matches EXCEPT ![st.i] = Upto(st.s, n)],
             st |-> applyAdvance(stps, st, From(st.s, n + Len(nextPrefix)))]

\* the branch taken otherwise: the unquoted value runs until nextPrefix
applyUnquoted(stps, matches, st) ==
    LET nextPrefix == NextPrefix(stps, st.i)
        n == Index(st.s, nextPrefix)
    IN IF nextPrefix = NoString
       THEN [matches |-> [matches EXCEPT ![st.i] = st.s], st |-> ApplyReturn(st, "rest")]
       ELSE IF n < 0
       THEN [matches |-> matches, st |-> ApplyReturn(st, "mismatch_unquoted")]
       ELSE [matches |-> [matches EXCEPT ![st.i] = Upto(st.s, n)],
             st |-> applyAdvance(stps, st, From(st.s, n + Len(nextPrefix)))]

\* faulty variant: the scan for nextPrefix is tried before the quoted literal
applyLoopScanFirst(stps, matches, st) ==
    LET q == tryUnquoteString(st.s)
        nextPrefix == NextPrefix(stps, st.i)
    IN IF q.ok /\ (nextPrefix = NoString \/ Index(st.s, nextPrefix) < 0)
       THEN applyQuoted(stps, matches, st, q)
       ELSE applyUnquoted(stps, matches, st)

\* one iteration of the for loop
applyLoop(stps, matches, st) ==
    LET q == tryUnquoteString(st.s)
    IN IF q.ok THEN applyQuoted(stps, matches, st, q)
       ELSE applyUnquoted(stps, matches, st)

applyStep(stps, matches, st) ==
    IF st.at = "first" THEN applyFirst(stps, matches, st)
    ELSE applyLoop(stps, matches, st)

RECURSIVE applyRun(_, _, _)
applyRun(stps, matches, st) ==
    IF st.at = "ret" THEN [matches |-> matches, st |-> st]
    ELSE LET r == applyStep(stps, matches, st)
         IN applyRun(stps, r.matches, r.st)

\* a whole call ef.apply(s) on a matcher whose buffer holds matches
apply(stps, matches, s) == applyRun(stps, clear(matches), ApplyStart(s))

IsMismatch(how) == how \in {"mismatch_first", "mismatch_quoted", "mismatch_unquoted"}

-----------------------------------------------------------------------------
(* Bounded inputs.                                                         *)

\* all concatenations of at most n of the given pieces
RECURSIVE SeqsOver(_, _)
SeqsOver(pieces, n) ==
    IF n = 0 THEN {<<>>}
    ELSE LET shorter == SeqsOver(pieces, n - 1)
         IN shorter \cup {p \o q : p \in shorter, q \in pieces}

\* patterns given to the parser alone
MaxParsePieces == 4
ParsePieces ==
    {<<LT>>, <<GT>>, <<"_">>, <<"*">>, <<"x">>, <<AMP, "l", "t", SEMI>>,
     <<LT, "x", GT>>, <<LT, "_", GT>>, <<LT, "*", GT>>}
ParsePatterns == SeqsOver(ParsePieces, MaxParsePieces)

\* patterns given to the matcher
MaxPatPieces == 4
MatchPieces == {<<LT, "x", GT>>, <<LT, "_", GT>>, <<"a">>, <<"=">>}
\* ip=<ip> msg=<msg>
ExamplePattern ==
    <<"i", "p", "=", LT, "i", "p", GT, " ", "m", "s", "g", "=", LT, "m", "s", "g", GT>>
\* <x>a<y>=<_> and <x>=<y>a
LongPatterns ==
    {<<LT, "x", GT, "a", LT, "y", GT, "=", LT, "_", GT>>,
     <<LT, "x", GT, "=", LT, "y", GT, "a">>}
MatchPatterns == SeqsOver(MatchPieces, MaxPatPieces) \cup LongPatterns \cup {ExamplePattern}

\* patterns of a matcher that is applied again and again
MaxRepeatPieces == 2
RepeatPatterns == SeqsOver(MatchPieces, MaxRepeatPieces)

\* inputs given to apply
MaxInputLen == 4
InputChars == {"a", "=", DQ, BQ, BSL}
\* ip="1.2.3.4" msg=ok
ExampleInput ==
    <<"i", "p", "=", DQ, "1", ".", "2", ".", "3", ".", "4", DQ,
      " ", "m", "s", "g", "=", "o", "k">>
Inputs == SeqsOver({<<c>> : c \in InputChars}, MaxInputLen) \cup {ExampleInput}

\* inputs given to a matcher that is applied again and again
MaxRepeatLen == 2
RepeatInputs == SeqsOver({<<c>> : c \in InputChars}, MaxRepeatLen)

-----------------------------------------------------------------------------
(* The single-threaded caller: parse, build a matcher, apply it.           *)

\* ap records the last call of apply: its argument, the slots of the matches
\* buffer it found filled, and the locals at its return
NoApply == [arg |-> NoString, filled |-> {}, st |-> ApplyStart(NoString)]

InitWith(patterns) ==
    /\ stepsStr \in patterns
    /\ field = <<"f">>
    /\ steps = <<>>
    /\ perr = ""
    /\ pc = "new"
    /\ ef = NoExtractFormat
    /\ ap = NoApply
    /\ neededFields = {}
    /\ unneededFields = {}
    /\ shards = <<>>
    /\ wk = <<>>
    /\ forwarded = <<>>

ParseExtractFormatSteps ==
    /\ pc = "new"
    /\ LET r == parseExtractFormatSteps(stepsStr)
       IN /\ steps' = r.steps
          /\ perr' = r.err
          /\ pc' = IF r.err = "" THEN "parsed" ELSE "rejected"
    /\ UNCHANGED <<stepsStr, field, ef, ap, neededFields, unneededFields,
                   shards, wk, forwarded>>

NewExtractFormat ==
    /\ pc = "parsed"
    /\ ef' = newExtractFormat(steps)
    /\ pc' = IF ef'.panic = "" THEN "ready" ELSE "panic"
    /\ UNCHANGED <<stepsStr, field, steps, perr, ap, neededFields, unneededFields,
                   shards, wk, forwarded>>

Apply(s) ==
    /\ pc \in {"ready", "applied"}
    /\ LET r == apply(ef.steps, ef.matches, s)
       IN /\ ef' = [ef EXCEPT !.matches = r.matches]
          /\ ap' = [arg |-> s,
                    filled |-> {j \in 1..Len(ef.matches) : ef.matches[j] # NoString},
                    st |-> r.st]
    /\ pc' = "applied"
    /\ UNCHANGED <<stepsStr, field, steps, perr, neededFields, unneededFields,
                   shards, wk, forwarded>>

\* the parser and the construction of a matcher
InitParse == InitWith(ParsePatterns)
NextParse == ParseExtractFormatSteps \/ NewExtractFormat
SpecParse == InitParse /\ [][NextParse]_vars

\* apply as a function of the steps and one input: a fresh matcher, one call
ApplyOnce == pc = "ready" /\ \E s \in Inputs : Apply(s)
InitMatch == InitWith(MatchPatterns)
NextMatch == ParseExtractFormatSteps \/ NewExtractFormat \/ ApplyOnce
SpecMatch == InitMatch /\ [][NextMatch]_vars

\* one matcher applied to any sequence of inputs
ApplyAgain == \E s \in RepeatInputs : Apply(s)
InitRepeat == InitWith(RepeatPatterns)
NextRepeat == ParseExtractFormatSteps \/ NewExtractFormat \/ ApplyAgain
SpecRepeat == InitRepeat /\ [][NextRepeat]_vars

-----------------------------------------------------------------------------
(* pipeExtract.updateNeededFields (under SpecFields).                      *)

\* fieldsSet.add and fieldsSet.remove: a set of field names
fieldsSetAdd(fs, name) == fs \cup {name}
fieldsSetRemove(fs, name) == fs \ {name}

\* the loop over pe.steps, from step i on
RECURSIVE RemoveNamedFrom(_, _, _)
RemoveNamedFrom(stps, i, unneeded) ==
    IF i > Len(stps) THEN unneeded
    ELSE IF stps[i].field # NoString
         THEN RemoveNamedFrom(stps, i + 1, fieldsSetRemove(unneeded, stps[i].field))
         ELSE RemoveNamedFrom(stps, i + 1, unneeded)

\* faulty variant: the field of every step is removed, anonymous or not
updateNeededFieldsEveryStep(fld, stps, needed, unneeded) ==
    [needed |-> fieldsSetAdd(needed, fld),
     unneeded |-> unneeded \ {stps[i].field : i \in 1..Len(stps)}]

updateNeededFields(fld, stps, needed, unneeded) ==
    [needed |-> fieldsSetAdd(needed, fld),
     unneeded |-> RemoveNamedFrom(stps, 1, unneeded)]

MaxFieldPieces == 3
FieldPieces == {<<LT, "x", GT>>, <<LT, "y", GT>>, <<LT, "_", GT>>, <<"a">>}
FieldPatterns == SeqsOver(FieldPieces, MaxFieldPieces)
\* the anonymous name stands for a field too (the message field)
FieldNames == {<<"f">>, <<"x">>, <<"y">>, NoString}

InitFields ==
    /\ stepsStr \in FieldPatterns
    /\ field \in {<<"f">>, <<"x">>}
    /\ steps = <<>>
    /\ perr = ""
    /\ pc = "new"
    /\ ef = NoExtractFormat
    /\ ap = NoApply
    /\ neededFields \in SUBSET FieldNames
    /\ unneededFields \in SUBSET FieldNames
    /\ shards = <<>>
    /\ wk = <<>>
    /\ forwarded = <<>>

UpdateNeededFields ==
    /\ pc = "parsed"
    /\ LET r == updateNeededFields(field, steps, neededFields, unneededFields)
       IN /\ neededFields' = r.needed
          /\ unneededFields' = r.unneeded
    /\ pc' = "updated"
    /\ UNCHANGED <<stepsStr, field, steps, perr, ef, ap, shards, wk, forwarded>>

NextFields == ParseExtractFormatSteps \/ UpdateNeededFields
SpecFields == InitFields /\ [][NextFields]_vars

-----------------------------------------------------------------------------
(* The sharded processor: newPipeProcessor and writeBlock (under Spec).    *)
(* A block is modelled by the values of the source column, one per row;    *)
(* its number of rows is len(br.timestamps).                               *)

\* workersCount
NumWorkers == 2
Workers == 1..NumWorkers

MaxRows == 1
\* <x>=<y> and a<x>=
ProcPatterns ==
    {<<LT, "x", GT, "=", LT, "y", GT>>, <<"a", LT, "x", GT, "=">>}
\* a=a and "="
RowValues == {<<"a", "=", "a">>, <<DQ, "=", DQ>>}
Blocks == SeqsOver({<<v>> : v \in RowValues}, MaxRows)

\* faulty variant: every worker uses the first shard
shardShared(workerID) == 1

\* shard := &pep.shards[workerID]
shardOf(workerID) == workerID

newPipeProcessor(stps, workersCount) ==
    [i \in 1..workersCount |-> newExtractFormat(stps)]

\* a worker outside writeBlock; br is the block of its last call
Idle(br) == [at |-> "idle", br |-> br, row |-> 0, st |-> ApplyStart(NoString)]

Init == InitWith(ProcPatterns)

NewPipeProcessor ==
    /\ pc = "parsed"
    /\ shards' = newPipeProcessor(steps, NumWorkers)
    /\ wk' = [w \in Workers |-> Idle(<<>>)]
    /\ pc' = "running"
    /\ UNCHANGED <<stepsStr, field, steps, perr, ef, ap, neededFields,
                   unneededFields, forwarded>>

\* writeBlock(workerID, br) is entered; a block without rows returns at once
WriteBlock(w, br) ==
    /\ pc = "running"
    /\ wk[w].at = "idle"
    /\ wk' = [wk EXCEPT ![w] = IF Len(br) = 0 THEN Idle(br)
                                ELSE [at |-> "row", br |-> br, row |-> 1,
                                      st |-> ApplyStart(NoString)]]
    /\ UNCHANGED <<stepsStr, field, steps, perr, pc, ef, ap, neededFields,
                   unneededFields, shards, forwarded>>

\* ef.apply(v) is called for the current row: the buffer is cleared
ApplyCall(w) ==
    /\ pc = "running"
    /\ wk[w].at = "row"
    /\ shards' = [shards EXCEPT ![shardOf(w)].matches = clear(@)]
    /\ wk' = [wk EXCEPT ![w].at = "apply",
                        ![w].st = ApplyStart(wk[w].br[wk[w].row])]
    /\ UNCHANGED <<stepsStr, field, steps, perr, pc, ef, ap, neededFields,
                   unneededFields, forwarded>>

\* one step of the running apply call
ApplyStep(w) ==
    /\ pc = "running"
    /\ wk[w].at = "apply"
    /\ wk[w].st.at # "ret"
    /\ LET e == shards[shardOf(w)]
           r == applyStep(e.steps, e.matches, wk[w].st)
       IN /\ shards' = [shards EXCEPT ![shardOf(w)].matches = r.matches]
          /\ wk' = [wk EXCEPT ![w].st = r.st]
    /\ UNCHANGED <<stepsStr, field, steps, perr, pc, ef, ap, neededFields,
                   unneededFields, forwarded>>

\* apply has returned: the results are dropped; the loop goes to the next row
\* or writeBlock returns, without a call of ppBase.writeBlock
NextRow(w) ==
    /\ pc = "running"
    /\ wk[w].at = "apply"
    /\ wk[w].st.at = "ret"
    /\ wk' = [wk EXCEPT ![w] = IF wk[w].row < Len(wk[w].br)
                                THEN [wk[w] EXCEPT !.at = "row", !.row = wk[w].row + 1]
                                ELSE Idle(wk[w].br)]
    /\ UNCHANGED <<stepsStr, field, steps, perr, pc, ef, ap, neededFields,
                   unneededFields, shards, forwarded>>

Next ==
    \/ ParseExtractFormatSteps
    \/ NewPipeProcessor
    \/ \E w \in Workers, br \in Blocks : WriteBlock(w, br)
    \/ \E w \in Workers : ApplyCall(w)
    \/ \E w \in Workers : ApplyStep(w)
    \/ \E w \in Workers : NextRow(w)

Spec == Init /\ [][Next]_vars

-----------------------------------------------------------------------------
(* Properties of the parser (under SpecParse).                             *)

HasNamedStep(stps) == \E i \in 1..Len(stps) : stps[i].field # NoString

\* every "<" of p opens <_> or <*>
OnlyAnonymousCaptures(p) ==
    \A i \in 1..Len(p) :
        p[i] = LT => /\ i + 2 <= Len(p)
                     /\ p[i + 1] \in {"_", "*"}
                     /\ p[i + 2] = GT

\* some "<" of p is closed by a ">" that is directly followed by "<"
CaptureFollowedByCapture(p) ==
    \E i \in 1..Len(p) :
        /\ p[i] = LT
        /\ LET n == IndexByte(From(p, i), GT)
           IN /\ n >= 0
              /\ i + n + 2 <= Len(p)
              /\ p[i + n + 2] = LT

Parsed == pc # "new" /\ perr = ""

\* C7: a pattern whose captures are all anonymous is rejected; a step list
\* returned without error is not empty and has a named step, so that
\* newExtractFormat never reaches its fatal checks.
C7_AnonymousOnlyRejected ==
    /\ (pc # "new" /\ OnlyAnonymousCaptures(stepsStr)) => perr # ""
    /\ Parsed => (Len(steps) >= 1 /\ HasNamedStep(steps))
    /\ pc # "panic"
    /\ pc = "ready" => (ef.panic = "" /\ Len(ef.fields) >= 1)

\* a pattern with captures, all of them anonymous, has been rejected
C7_Witness ==
    /\ pc = "rejected"
    /\ OnlyAnonymousCaptures(stepsStr)
    /\ Len(stepsStr) >= 7
    /\ perr = "missing named fields like <name>"

\* C8: a capture directly followed by another capture is rejected; in a step
\* list returned without error every step but the first has a non-empty prefix,
\* so nextPrefix is empty at the last step only.
C8_DelimiterBetweenCaptures ==
    /\ (pc # "new" /\ CaptureFollowedByCapture(stepsStr)) => perr # ""
    /\ Parsed => \A i \in 2..Len(steps) : steps[i].prefix # NoString
    /\ Parsed => \A i \in 1..Len(steps) :
                    NextPrefix(steps, i) = NoString => i = Len(steps)

\* a pattern with a named capture directly followed by a capture is rejected
C8_Witness ==
    /\ pc = "rejected"
    /\ perr = "missing delimiter"
    /\ CaptureFollowedByCapture(stepsStr)
    /\ HasPrefix(stepsStr, <<LT, "x", GT, LT>>)

-----------------------------------------------------------------------------
(* Properties of one call of apply (under SpecMatch).                      *)

Applied == pc = "applied"

\* the assignments of values to the captures of steps i.. whose concatenation
\* with the prefixes is s: prefix_i value_i prefix_i+1 value_i+1 ...
RECURSIVE Splits(_, _, _)
Splits(stps, i, s) ==
    IF i > Len(stps) THEN (IF s = NoString THEN {<<>>} ELSE {})
    ELSE IF ~HasPrefix(s, stps[i].prefix) THEN {}
    ELSE LET r == From(s, Len(stps[i].prefix))
         IN IF i = Len(stps) THEN {<<r>>}
            ELSE UNION {{<<Upto(r, k)>> \o t : t \in Splits(stps, i + 1, From(r, k))} :
                        k \in 0..Len(r)}

\* no value contains the prefix of the following step
NoValueHoldsNextPrefix(stps, vals) ==
    \A i \in 1..(Len(stps) - 1) : Index(vals[i], stps[i + 1].prefix) < 0

\* offset in the input at which the value of capture i starts
RECURSIVE CaptureOffset(_, _, _)
CaptureOffset(stps, vals, i) ==
    Len(stps[i].prefix)
      + (IF i = 1 THEN 0 ELSE CaptureOffset(stps, vals, i - 1) + Len(vals[i - 1]))

\* the following prefix does not occur in value_i prefix_i+1 before the end of
\* value_i: neither inside the value nor across its end
NextPrefixFirstAtEnd(stps, vals) ==
    \A i \in 1..(Len(stps) - 1) :
        Index(vals[i] \o stps[i + 1].prefix, stps[i + 1].prefix) = Len(vals[i])

\* at no capture position does the remaining input begin with a quoted literal
NoQuotedLiteralAtCapture(stps, vals, s) ==
    \A i \in 1..Len(stps) : ~UnquotePrefix(From(s, CaptureOffset(stps, vals, i))).ok

\* C2 as stated: round trip for values that do not contain the next prefix
C2_RoundTripAsStated ==
    Applied =>
        \A vals \in Splits(ef.steps, 1, ap.arg) :
            NoValueHoldsNextPrefix(ef.steps, vals) => ef.matches = vals

\* C2 (amended): the round trip holds when, in addition, the next prefix has no
\* occurrence in value_i prefix_i+1 before the end of value_i, and the input
\* remaining at a capture position never begins with a valid quoted literal.
C2_RoundTrip ==
    Applied =>
        \A vals \in Splits(ef.steps, 1, ap.arg) :
            ( /\ NextPrefixFirstAtEnd(ef.steps, vals)
              /\ NoQuotedLiteralAtCapture(ef.steps, vals, ap.arg) )
            => ef.matches = vals

\* an input built from three prefixes and non-empty values has been matched
C2_Witness ==
    /\ Applied
    /\ Len(ef.steps) >= 3
    /\ \E vals \in Splits(ef.steps, 1, ap.arg) :
          /\ NextPrefixFirstAtEnd(ef.steps, vals)
          /\ NoQuotedLiteralAtCapture(ef.steps, vals, ap.arg)
          /\ vals[1] # NoString /\ vals[2] # NoString
          /\ ef.matches = vals

\* C3 as stated: after a mismatch the step at which matching stopped and every
\* later step hold the empty string
C3_MismatchAsStated ==
    (Applied /\ IsMismatch(ap.st.how)) =>
        \A j \in ap.st.i..Len(ef.matches) : ef.matches[j] = NoString

\* C3 (amended): after a mismatch every step after the one at which matching
\* stopped holds the empty string, and so does that step unless its value was
\* read as a quoted literal, in which case it holds the unquoted content.
C3_MismatchLeavesLaterEmpty ==
    (Applied /\ IsMismatch(ap.st.how)) =>
        /\ \A j \in (ap.st.i + 1)..Len(ef.matches) : ef.matches[j] = NoString
        /\ ap.st.how # "mismatch_quoted" => ef.matches[ap.st.i] = NoString
        /\ ap.st.how = "mismatch_quoted" =>
              \E k \in 0..Len(ap.arg) :
                  LET q == tryUnquoteString(From(ap.arg, k))
                  IN /\ q.ok
                     /\ ef.matches[ap.st.i] = q.us
                     /\ ap.st.s = From(ap.arg, k + q.nOffset)
        /\ ef.panic = ""

\* matching stopped at a step that is neither the first nor the last
C3_Witness ==
    /\ Applied
    /\ IsMismatch(ap.st.how)
    /\ ap.st.i >= 2
    /\ ap.st.i < Len(ef.matches)
    /\ ef.matches[1] # NoString

\* the states an apply call goes through, the returned one included
RECURSIVE ApplyTrace(_, _, _)
ApplyTrace(stps, matches, st) ==
    IF st.at = "ret" THEN <<[matches |-> matches, st |-> st]>>
    ELSE LET r == applyStep(stps, matches, st)
         IN <<[matches |-> matches, st |-> st]>> \o ApplyTrace(stps, r.matches, r.st)

\* at iteration t.st.i the input begins with a valid quoted literal that is
\* directly followed by the next prefix
QuotedThenNextPrefix(stps, t) ==
    /\ t.st.at = "loop"
    /\ Len(t.st.s) > 0
    /\ t.st.s[1] \in {DQ, BQ}
    /\ UnquotePrefix(t.st.s).ok
    /\ HasPrefix(From(t.st.s, UnquotePrefix(t.st.s).end), NextPrefix(stps, t.st.i))

\* C6: where the input at a capture position begins with a valid quoted
\* literal directly followed by the next prefix (none for the last step), the
\* step's value is the unquoted content and matching goes on right after that
\* prefix, even if the prefix also occurs inside the literal; the pattern
\* ip=<ip> msg=<msg> on ip="1.2.3.4" msg=ok gives 1.2.3.4 and ok.
C6_QuotedLiteralPrecedence ==
    Applied =>
        LET tr == ApplyTrace(ef.steps, clear(ef.matches), ApplyStart(ap.arg))
        IN /\ \A k \in 1..(Len(tr) - 1) :
                QuotedThenNextPrefix(ef.steps, tr[k]) =>
                    LET i == tr[k].st.i
                        q == UnquotePrefix(tr[k].st.s)
                        np == NextPrefix(ef.steps, i)
                    IN /\ ef.matches[i] = q.val
                       /\ tr[k + 1].st.s = From(tr[k].st.s, q.end + Len(np))
                       /\ tr[k + 1].st.how \in {"", "end"}
           /\ (stepsStr = ExamplePattern /\ ap.arg = ExampleInput) =>
                 ef.matches = <<<<"1", ".", "2", ".", "3", ".", "4">>, <<"o", "k">>>>

\* a quoted literal that holds the next prefix has been taken as the value of
\* a step, and a later step has matched too
C6_Witness ==
    /\ Applied
    /\ ap.st.how = "rest"
    /\ ap.st.i >= 2
    /\ LET tr == ApplyTrace(ef.steps, clear(ef.matches), ApplyStart(ap.arg))
       IN \E k \in 1..(Len(tr) - 1) :
             /\ QuotedThenNextPrefix(ef.steps, tr[k])
             /\ Index(UnquotePrefix(tr[k].st.s).val, NextPrefix(ef.steps, tr[k].st.i)) >= 0
             /\ NextPrefix(ef.steps, tr[k].st.i) # NoString

\* C10: when matching stops at step i, the steps before i keep the values
\* matched during this call, namely the values the first i steps of the
\* pattern capture from the same input.
C10_PartialResultsKept ==
    (Applied /\ IsMismatch(ap.st.how)) =>
        LET head == Upto(ef.steps, ap.st.i)
            r == apply(head, [j \in 1..Len(head) |-> NoString], ap.arg)
        IN \A j \in 1..(ap.st.i - 1) :
              /\ ef.matches[j] = r.matches[j]
              /\ ~IsMismatch(r.st.how)

\* a row that failed to match exposes a non-empty leading value
C10_Witness ==
    /\ Applied
    /\ ap.st.how = "mismatch_unquoted"
    /\ ap.st.i >= 2
    /\ \E j \in 1..(ap.st.i - 1) : ef.matches[j] # NoString

-----------------------------------------------------------------------------
(* Properties of repeated calls of apply on one matcher (under SpecRepeat). *)

\* C4: after any sequence of calls the matches slots, and the values seen
\* through the fields view, are those of a freshly built matcher after one
\* call on the last input.
C4_NoStaleResults ==
    Applied =>
        LET fresh == newExtractFormat(ef.steps)
            r == apply(fresh.steps, fresh.matches, ap.arg)
        IN /\ ef.matches = r.matches
           /\ \A k \in 1..Len(ef.fields) :
                 FieldValue(ef, k) = r.matches[fresh.fields[k].value]

\* a call that did not match found a value of an earlier call in the buffer
\* and left the slot empty
C4_Witness ==
    /\ Applied
    /\ IsMismatch(ap.st.how)
    /\ \E j \in 1..Len(ef.matches) :
          /\ j \in ap.filled
          /\ ef.matches[j] = NoString
          /\ ef.steps[j].field # NoString

-----------------------------------------------------------------------------
(* Properties of updateNeededFields (under SpecFields).                    *)

NamedFields(stps) == {stps[i].field : i \in 1..Len(stps)} \ {NoString}

\* C9: after updateNeededFields the source field is in needed and no named
\* capture field is in unneeded; nothing else changes in either set, so the
\* anonymous steps change nothing.
C9_NeededFieldPropagation ==
    [][(pc = "parsed" /\ pc' = "updated") =>
          /\ field \in neededFields'
          /\ \A i \in 1..Len(steps) :
                steps[i].field # NoString => steps[i].field \notin unneededFields'
          /\ neededFields' = neededFields \cup {field}
          /\ unneededFields' = unneededFields \ NamedFields(steps)]_vars

\* the pattern has a named and an anonymous capture and the anonymous name is
\* still unneeded after the call
C9_Witness ==
    /\ pc = "updated"
    /\ NamedFields(steps) # {}
    /\ \E i \in 1..Len(steps) : steps[i].field = NoString
    /\ NoString \in unneededFields
    /\ field \in neededFields

-----------------------------------------------------------------------------
(* Properties of the processor (under Spec).                               *)

\* the values of a fresh matcher after one call on v
Sequential(v) ==
    LET fresh == newExtractFormat(steps)
    IN apply(fresh.steps, fresh.matches, v).matches

\* the columns the pattern's named fields give for the rows of br
ExpectedColumns(br) ==
    LET fresh == newExtractFormat(steps)
    IN [k \in 1..Len(fresh.fields) |->
          [name |-> fresh.fields[k].name,
           values |-> [r \in 1..Len(br) |-> Sequential(br[r])[fresh.fields[k].value]]]]

\* C1: once writeBlock has returned for a block with rows, the next stage has
\* been given that block with one more column per named field, holding the
\* value extracted from each row.
C1_BlockForwarded ==
    pc = "running" =>
        \A w \in Workers :
            (wk[w].at = "idle" /\ Len(wk[w].br) > 0) =>
                \E k \in 1..Len(forwarded) :
                    /\ forwarded[k].br = wk[w].br
                    /\ forwarded[k].columns = ExpectedColumns(wk[w].br)

\* the results of worker w's current row are in shard w and are those of a
\* single matcher
RowResultsSequential ==
    pc = "running" =>
        \A w \in Workers :
            (wk[w].at = "apply" /\ wk[w].st.at = "ret") =>
                shards[w].matches = Sequential(wk[w].br[wk[w].row])

\* a step leaves alone the shards of the workers that did not take it, and
\* the step list
OnlyOwnShard ==
    pc = "running" =>
        /\ steps' = steps
        /\ \A w \in Workers :
              /\ wk'[w] = wk[w] => shards'[w] = shards[w]
              /\ shards'[w].steps = steps

\* C5: under every interleaving of the workers' writeBlock calls the values
\* computed for a row are those a single matcher computes for it; a step of
\* worker w reads and writes shard w only and never changes the step list.
C5_ShardIsolation == [](RowResultsSequential) /\ [][OnlyOwnShard]_vars

\* both workers have finished a row at the same time, with different results
C5_Witness ==
    /\ pc = "running"
    /\ \A w \in Workers : wk[w].at = "apply" /\ wk[w].st.at = "ret"
    /\ shards[1].matches # shards[2].matches
    /\ \E j \in 1..Len(steps) : shards[1].matches[j] # NoString

====
